---- MODULE Spec2Model ----
(***************************************************************************)
(* Model of the SQL validator front end (App component): the editor text,  *)
(* the two outbound requests (validate, suggest-fix) and the mapping of    *)
(* the validator's "Line N: msg" strings to character-range diagnostics.   *)
(*                                                                         *)
(* A string is a sequence of one-character strings.  A fixed literal of    *)
(* the program that is never taken apart is abbreviated to one token.      *)
(***************************************************************************)
EXTENDS Integers, Sequences, FiniteSets, TLC

VARIABLES query, issues, loading, diagnostics, suggestedFix,
          pendingValidate, pendingSuggest, last

vars == <<query, issues, loading, diagnostics, suggestedFix,
          pendingValidate, pendingSuggest, last>>

----------------------------------------------------------------------------
(* Bounds *)

\* longest text typed into the editor
MaxLen == 2

\* longest validate response
MaxIssues == 2

\* most requests (validate and suggest-fix together) awaited at once; the
\* code has no such limit, the handlers take it as their parameter
MaxInFlight == 2

----------------------------------------------------------------------------
(* Characters and literals *)

NL == "\n"

Digits == <<"0", "1", "2", "3", "4", "5", "6", "7", "8", "9">>

IsDigit(c) == \E i \in 1..10 : Digits[i] = c

DigitVal(c) == (CHOOSE i \in 1..10 : Digits[i] = c) - 1

IsSpace(c) == c \in {" ", "\t", NL}

LinePrefix == <<"L", "i", "n", "e", " ">>

ValidateErrorIssue == <<"An error occurred while validating.">>

NoSuggestionApp == <<"No suggestion returned.">>

\* "[!]" stands for the warning-sign emoji of the source literal
SuggestFailedApp == <<"[!] AI suggestion failed. Please try again later.">>

NoSuggestionApi == <<"[!] No suggestion returned.">>

ErrorFetchingApi == <<"[!] Error fetching AI suggestion.">>

----------------------------------------------------------------------------
(* String functions of the JavaScript runtime, as the code uses them *)

Drop(s, k) == SubSeq(s, k + 1, Len(s))

RECURSIVE Split(_)
Split(s) ==
  IF \E i \in 1..Len(s) : s[i] = NL
  THEN LET i == CHOOSE j \in 1..Len(s) :
                  s[j] = NL /\ \A k \in 1..(j - 1) : s[k] # NL
       IN <<SubSeq(s, 1, i - 1)>> \o Split(Drop(s, i))
  ELSE <<s>>

RECURSIVE DigitRun(_, _)
DigitRun(s, i) ==
  IF i <= Len(s) /\ IsDigit(s[i]) THEN 1 + DigitRun(s, i + 1) ELSE 0

SpaceRun_AtMostOne(s, i) == IF i <= Len(s) /\ IsSpace(s[i]) THEN 1 ELSE 0

RECURSIVE SpaceRun(_, _)
SpaceRun(s, i) ==
  IF i <= Len(s) /\ IsSpace(s[i]) THEN 1 + SpaceRun(s, i + 1) ELSE 0

RECURSIVE ParseInt(_)
ParseInt(ds) ==
  IF ds = <<>> THEN 0
  ELSE 10 * ParseInt(SubSeq(ds, 1, Len(ds) - 1)) + DigitVal(ds[Len(ds)])

Slice0_Inclusive(xs, e) ==
  LET end == IF e + 1 > Len(xs) THEN Len(xs) ELSE (IF e + 1 < 0 THEN 0 ELSE e + 1)
  IN SubSeq(xs, 1, end)

Slice0(xs, e) ==
  LET end == IF e < 0 THEN (IF Len(xs) + e < 0 THEN 0 ELSE Len(xs) + e)
             ELSE (IF e > Len(xs) THEN Len(xs) ELSE e)
  IN SubSeq(xs, 1, end)

RECURSIVE TrimLeft(_)
TrimLeft(s) == IF s # <<>> /\ IsSpace(s[1]) THEN TrimLeft(Drop(s, 1)) ELSE s

RECURSIVE TrimRight(_)
TrimRight(s) ==
  IF s # <<>> /\ IsSpace(s[Len(s)]) THEN TrimRight(SubSeq(s, 1, Len(s) - 1)) ELSE s

Trim(s) == TrimRight(TrimLeft(s))

----------------------------------------------------------------------------
(* handleSubmit: issue string -> diagnostic *)

Match_NoColon(msg) ==
  LET n == DigitRun(msg, 6)
  IN IF /\ Len(msg) >= 5
        /\ SubSeq(msg, 1, 5) = LinePrefix
        /\ n >= 1
     THEN [ok |-> TRUE, group |-> SubSeq(msg, 6, 5 + n), len |-> 5 + n + 1]
     ELSE [ok |-> FALSE, group |-> <<>>, len |-> 0]

Match(msg) ==
  LET n == DigitRun(msg, 6)
  IN IF /\ Len(msg) >= 5
        /\ SubSeq(msg, 1, 5) = LinePrefix
        /\ n >= 1
        /\ 5 + n + 1 <= Len(msg)
        /\ msg[5 + n + 1] = ":"
     THEN [ok |-> TRUE, group |-> SubSeq(msg, 6, 5 + n), len |-> 5 + n + 1]
     ELSE [ok |-> FALSE, group |-> <<>>, len |-> 0]

StripPrefix(msg) ==
  LET m == Match(msg)
  IN IF m.ok THEN Drop(msg, m.len + SpaceRun(msg, m.len + 1)) ELSE msg

LineOrEmpty(lines, lineNumber) ==
  IF lineNumber >= 1 /\ lineNumber <= Len(lines) THEN lines[lineNumber] ELSE <<>>

RECURSIVE Reduce_NoBreak(_)
Reduce_NoBreak(ls) ==
  IF ls = <<>> THEN 0
  ELSE Reduce_NoBreak(SubSeq(ls, 1, Len(ls) - 1)) + Len(ls[Len(ls)])

RECURSIVE Reduce(_)
Reduce(ls) ==
  IF ls = <<>> THEN 0
  ELSE Reduce(SubSeq(ls, 1, Len(ls) - 1)) + Len(ls[Len(ls)]) + 1

StartOffset(lines, lineNumber) == Reduce(Slice0(lines, lineNumber - 1))

MakeDiagnostic(lines, msg) ==
  LET lineNumber == ParseInt(Match(msg).group)
      line == LineOrEmpty(lines, lineNumber)
      start == StartOffset(lines, lineNumber)
  IN [from |-> start, to |-> start + Len(line),
      severity |-> "warning", message |-> StripPrefix(msg)]

RECURSIVE NewDiagnostics(_, _)
NewDiagnostics(lines, result) ==
  IF result = <<>> THEN <<>>
  ELSE LET msg == result[Len(result)]
           before == NewDiagnostics(lines, SubSeq(result, 1, Len(result) - 1))
       IN IF Match(msg).ok THEN Append(before, MakeDiagnostic(lines, msg))
          ELSE before

----------------------------------------------------------------------------
(* customGutter: diagnostics -> gutter markers, against the editor's text *)

\* view.state.doc.lineAt(pos): the line holding offset pos; RangeError when
\* pos lies outside the document
lineAt(doc, pos) ==
  IF pos < 0 \/ pos > Len(doc)
  THEN [ok |-> FALSE, number |-> 0, from |-> 0]
  ELSE LET breaks == {j \in 1..pos : doc[j] = NL}
       IN [ok |-> TRUE,
           number |-> Cardinality(breaks) + 1,
           from |-> IF breaks = {} THEN 0
                    ELSE CHOOSE j \in breaks : \A m \in breaks : m <= j]

\* diagnostics.forEach over a RangeSetBuilder: marks holds the lines added so
\* far, in the order added; builder.add throws when a range starts before
\* the one added last, and the exception leaves markers() without a result
RECURSIVE markers(_, _)
markers(doc, ds) ==
  IF ds = <<>> THEN [thrown |-> FALSE, marks |-> <<>>]
  ELSE LET before == markers(doc, SubSeq(ds, 1, Len(ds) - 1))
           line == lineAt(doc, ds[Len(ds)].from)
           seenLines == {before.marks[i].number : i \in 1..Len(before.marks)}
       IN IF before.thrown \/ ~line.ok THEN [thrown |-> TRUE, marks |-> <<>>]
          ELSE IF line.number \in seenLines THEN before
          ELSE IF before.marks # <<>> /\ line.from < before.marks[Len(before.marks)].from
               THEN [thrown |-> TRUE, marks |-> <<>>]
               ELSE [thrown |-> FALSE,
                     marks |-> Append(before.marks,
                                      [number |-> line.number, from |-> line.from])]

----------------------------------------------------------------------------
(* getAiSuggestion: transport outcome -> JavaScript value handed to the caller *)

Str(s) == [t |-> "string", v |-> s]

Num == [t |-> "number", v |-> <<>>]

Undefined == [t |-> "undefined", v |-> <<>>]

Truthy(x) == (x.t = "number") \/ (x.t = "string" /\ x.v # <<>>)

getAiSuggestion_MessageFirst(o) ==
  IF o.kind = "json"
  THEN IF o.body = "string" THEN Str(o.str)
       ELSE IF o.body = "object"
            THEN IF Truthy(o.message) THEN o.message
                 ELSE IF Truthy(o.response) THEN o.response
                 ELSE Str(NoSuggestionApi)
            ELSE Str(ErrorFetchingApi)
  ELSE Str(ErrorFetchingApi)

getAiSuggestion(o) ==
  IF o.kind = "json"
  THEN IF o.body = "string" THEN Str(o.str)
       ELSE IF o.body = "object"
            THEN IF Truthy(o.response) THEN o.response
                 ELSE IF Truthy(o.message) THEN o.message
                 ELSE Str(NoSuggestionApi)
            ELSE Str(ErrorFetchingApi)
  ELSE Str(ErrorFetchingApi)

SuggestedFixOf_NoFallback(suggestion) ==
  IF suggestion.t = "string" THEN Trim(suggestion.v)
  ELSE IF suggestion.t = "undefined" THEN NoSuggestionApp
  ELSE SuggestFailedApp

SuggestedFixOf(suggestion) ==
  IF suggestion.t = "string"
  THEN IF Trim(suggestion.v) # <<>> THEN Trim(suggestion.v) ELSE NoSuggestionApp
  ELSE IF suggestion.t = "undefined" THEN NoSuggestionApp
  ELSE SuggestFailedApp

----------------------------------------------------------------------------
(* Inputs *)

RemoveAt(s, i) == SubSeq(s, 1, i - 1) \o SubSeq(s, i + 1, Len(s))

SeqsUpTo(S, n) == UNION {[1..k -> S] : k \in 0..n}

SessionTexts == {<<>>, <<"a">>, <<"a", NL, "a", "a">>}

SessionResults ==
  { <<>>,
    << <<"W", "a", "r", "n">> >>,
    << <<"L", "i", "n", "e", " ", "2", ":", " ", "x">> >>,
    << <<"L", "i", "n", "e", " ", "9", ":", " ", "x">> >> }

Outcome(kind, body, str, response, message) ==
  [kind |-> kind, body |-> body, str |-> str, response |-> response, message |-> message]

SuggestOutcomes ==
  { Outcome("neterr", "none", <<>>, Undefined, Undefined),
    Outcome("notok", "none", <<>>, Undefined, Undefined),
    Outcome("json", "string", <<" ", "f", " ">>, Undefined, Undefined),
    Outcome("json", "string", <<" ">>, Undefined, Undefined),
    Outcome("json", "string", <<>>, Undefined, Undefined),
    Outcome("json", "object", <<>>, Str(<<"r">>), Str(<<"m">>)),
    Outcome("json", "object", <<>>, Str(<<>>), Str(<<"m">>)),
    Outcome("json", "object", <<>>, Undefined, Undefined),
    Outcome("json", "object", <<>>, Num, Undefined),
    Outcome("json", "null", <<>>, Undefined, Undefined) }

PipeTexts == SeqsUpTo({"a", NL}, MaxLen)

IssueLine1 == <<"L", "i", "n", "e", " ", "1", ":", "x">>

IssueLine2 == <<"L", "i", "n", "e", " ", "2", ":", " ", " ", "y">>

IssueLine03 == <<"L", "i", "n", "e", " ", "0", "3", ":", "\t", "q">>

IssueNoDigits == <<"L", "i", "n", "e", " ", ":", " ", "u">>

IssueNoColon == <<"L", "i", "n", "e", " ", "1", " ", "s">>

IssueStrings ==
  {IssueLine1, IssueLine2, IssueLine03, IssueNoDigits, IssueNoColon}

PipeResults == SeqsUpTo(IssueStrings, MaxIssues)

----------------------------------------------------------------------------
(* State machine *)

NoOutcome == Outcome("none", "none", <<>>, Undefined, Undefined)

Done(op, q, result) ==
  [op |-> op, query |-> q, result |-> result,
   outcome |-> NoOutcome, returned |-> Undefined]

\* the suggest-fix completion also records what fetch produced and what
\* getAiSuggestion handed back
DoneSuggested(q, o, suggestion) ==
  [op |-> "suggested", query |-> q, result |-> <<>>,
   outcome |-> o, returned |-> suggestion]

Init ==
  /\ query = <<>>
  /\ issues = <<>>
  /\ loading = FALSE
  /\ diagnostics = <<>>
  /\ suggestedFix = <<>>
  /\ pendingValidate = <<>>
  /\ pendingSuggest = <<>>
  /\ last = Done("init", <<>>, <<>>)

onChange_KeepsDiagnostics(value) ==
  /\ value # query
  /\ query' = value
  /\ suggestedFix' = <<>>
  /\ issues' = <<>>
  /\ last' = Done("edit", value, <<>>)
  /\ UNCHANGED <<diagnostics, loading, pendingValidate, pendingSuggest>>

onChange_KeepsSuggestion(value) ==
  /\ value # query
  /\ query' = value
  /\ issues' = <<>>
  /\ diagnostics' = <<>>
  /\ last' = Done("edit", value, <<>>)
  /\ UNCHANGED <<suggestedFix, loading, pendingValidate, pendingSuggest>>

onChange(value) ==
  /\ value # query
  /\ query' = value
  /\ suggestedFix' = <<>>
  /\ issues' = <<>>
  /\ diagnostics' = <<>>
  /\ last' = Done("edit", value, <<>>)
  /\ UNCHANGED <<loading, pendingValidate, pendingSuggest>>

handleSubmit(bound) ==
  /\ Len(pendingValidate) + Len(pendingSuggest) < bound
  /\ loading' = TRUE
  /\ pendingValidate' = Append(pendingValidate, [query |-> query])
  /\ last' = Done("submit", query, <<>>)
  /\ UNCHANGED <<query, issues, diagnostics, suggestedFix, pendingSuggest>>

handleSubmitResolved(i, result) ==
  /\ i \in 1..Len(pendingValidate)
  /\ LET captured == pendingValidate[i].query
     IN /\ issues' = result
        /\ diagnostics' = NewDiagnostics(Split(captured), result)
        /\ last' = Done("validated", captured, result)
  /\ loading' = FALSE
  /\ pendingValidate' = RemoveAt(pendingValidate, i)
  /\ UNCHANGED <<query, suggestedFix, pendingSuggest>>

handleSubmitRejected_KeepsLoading(i) ==
  /\ i \in 1..Len(pendingValidate)
  /\ issues' = <<ValidateErrorIssue>>
  /\ diagnostics' = <<>>
  /\ last' = Done("validateFailed", pendingValidate[i].query, <<>>)
  /\ pendingValidate' = RemoveAt(pendingValidate, i)
  /\ UNCHANGED <<query, loading, suggestedFix, pendingSuggest>>

handleSubmitRejected_KeepsDiagnostics(i) ==
  /\ i \in 1..Len(pendingValidate)
  /\ issues' = <<ValidateErrorIssue>>
  /\ loading' = FALSE
  /\ last' = Done("validateFailed", pendingValidate[i].query, <<>>)
  /\ pendingValidate' = RemoveAt(pendingValidate, i)
  /\ UNCHANGED <<query, diagnostics, suggestedFix, pendingSuggest>>

handleSubmitRejected(i) ==
  /\ i \in 1..Len(pendingValidate)
  /\ issues' = <<ValidateErrorIssue>>
  /\ diagnostics' = <<>>
  /\ loading' = FALSE
  /\ last' = Done("validateFailed", pendingValidate[i].query, <<>>)
  /\ pendingValidate' = RemoveAt(pendingValidate, i)
  /\ UNCHANGED <<query, suggestedFix, pendingSuggest>>

handleSuggestFix_NoGate(bound) ==
  /\ Len(pendingValidate) + Len(pendingSuggest) < bound
  /\ pendingSuggest' = Append(pendingSuggest, [query |-> query, issues |-> issues])
  /\ last' = Done("suggest", query, issues)
  /\ UNCHANGED <<query, issues, loading, diagnostics, suggestedFix, pendingValidate>>

handleSuggestFix(bound) ==
  /\ Len(issues) # 0
  /\ Len(pendingValidate) + Len(pendingSuggest) < bound
  /\ pendingSuggest' = Append(pendingSuggest, [query |-> query, issues |-> issues])
  /\ last' = Done("suggest", query, issues)
  /\ UNCHANGED <<query, issues, loading, diagnostics, suggestedFix, pendingValidate>>

handleSuggestFixResolved(i, o) ==
  /\ i \in 1..Len(pendingSuggest)
  /\ suggestedFix' = SuggestedFixOf(getAiSuggestion(o))
  /\ last' = DoneSuggested(pendingSuggest[i].query, o, getAiSuggestion(o))
  /\ pendingSuggest' = RemoveAt(pendingSuggest, i)
  /\ UNCHANGED <<query, issues, loading, diagnostics, pendingValidate>>

Next ==
  \/ \E value \in SessionTexts : onChange(value)
  \/ handleSubmit(MaxInFlight)
  \/ \E i \in 1..MaxInFlight, result \in SessionResults : handleSubmitResolved(i, result)
  \/ \E i \in 1..MaxInFlight : handleSubmitRejected(i)
  \/ handleSuggestFix(MaxInFlight)
  \/ \E i \in 1..MaxInFlight, o \in SuggestOutcomes : handleSuggestFixResolved(i, o)

Spec == Init /\ [][Next]_vars

\* An awaited validate request settles: its promise resolves or rejects and
\* the rest of handleSubmit runs.
ValidateSettles ==
  \E i \in 1..MaxInFlight :
    \/ \E result \in SessionResults : handleSubmitResolved(i, result)
    \/ handleSubmitRejected(i)

LiveOutcomes ==
  { Outcome("notok", "none", <<>>, Undefined, Undefined),
    Outcome("json", "string", <<" ", "f", " ">>, Undefined, Undefined) }

\* The session with two suggest-fix outcomes, a failure and an answer.
LiveNext ==
  \/ \E value \in SessionTexts : onChange(value)
  \/ handleSubmit(MaxInFlight)
  \/ \E i \in 1..MaxInFlight, result \in SessionResults : handleSubmitResolved(i, result)
  \/ \E i \in 1..MaxInFlight : handleSubmitRejected(i)
  \/ handleSuggestFix(MaxInFlight)
  \/ \E i \in 1..MaxInFlight, o \in LiveOutcomes : handleSuggestFixResolved(i, o)

\* The session under the assumption that awaited validate requests settle.
LiveSpec == Init /\ [][LiveNext]_vars /\ WF_vars(ValidateSettles)

\* The editor and the validate pipeline alone, one validate request at a
\* time, over every text up to MaxLen and every response up to MaxIssues.
PipeNext ==
  \/ \E value \in PipeTexts : onChange(value)
  \/ handleSubmit(1)
  \/ \E result \in PipeResults : handleSubmitResolved(1, result)
  \/ handleSubmitRejected(1)

PipeSpec == Init /\ [][PipeNext]_vars

----------------------------------------------------------------------------
(* Vocabulary of the properties, defined on the text itself and not through *)
(* the operators above                                                      *)

DigitValue ==
  ("0" :> 0) @@ ("1" :> 1) @@ ("2" :> 2) @@ ("3" :> 3) @@ ("4" :> 4) @@
  ("5" :> 5) @@ ("6" :> 6) @@ ("7" :> 7) @@ ("8" :> 8) @@ ("9" :> 9)

Shape(s, k) ==
  /\ Len(s) >= 6 + k
  /\ \A i \in 1..5 : s[i] = LinePrefix[i]
  /\ \A i \in 6..(5 + k) : s[i] \in DOMAIN DigitValue
  /\ s[6 + k] = ":"

WellFormed(s) == \E k \in 1..Len(s) : Shape(s, k)

DigitCount(s) == CHOOSE k \in 1..Len(s) : Shape(s, k)

RECURSIVE Pow10(_)
Pow10(e) == IF e = 0 THEN 1 ELSE 10 * Pow10(e - 1)

RECURSIVE DecimalFrom(_, _, _)
DecimalFrom(s, i, k) ==
  IF k = 0 THEN 0
  ELSE DigitValue[s[i]] * Pow10(k - 1) + DecimalFrom(s, i + 1, k - 1)

LineNumberOf(s) == DecimalFrom(s, 6, DigitCount(s))

Remainder(s) == SubSeq(s, 7 + DigitCount(s), Len(s))

BreaksBefore(text, j) == Cardinality({i \in 1..(j - 1) : text[i] = NL})

LineCount(text) == BreaksBefore(text, Len(text) + 1) + 1

LineText(text, n) ==
  LET P == {j \in 1..Len(text) : text[j] # NL /\ BreaksBefore(text, j) = n - 1}
  IN IF P = {} THEN <<>>
     ELSE SubSeq(text, CHOOSE j \in P : \A m \in P : j <= m,
                       CHOOSE j \in P : \A m \in P : j >= m)

RECURSIVE SumBefore(_, _)
SumBefore(text, n) ==
  IF n <= 1 THEN 0 ELSE SumBefore(text, n - 1) + Len(LineText(text, n - 1)) + 1

InRange(text, n) == n >= 1 /\ n <= LineCount(text)

\* positions of the well-formed issues of a response, in order
RECURSIVE WellFormedIdx(_)
WellFormedIdx(result) ==
  IF result = <<>> THEN <<>>
  ELSE LET before == WellFormedIdx(SubSeq(result, 1, Len(result) - 1))
       IN IF WellFormed(result[Len(result)]) THEN Append(before, Len(result))
          ELSE before

\* the issue the k-th stored diagnostic was built from
IssueOf(k) == last.result[WellFormedIdx(last.result)[k]]

Validated == last.op = "validated"

Paired == Len(diagnostics) = Len(WellFormedIdx(last.result))

----------------------------------------------------------------------------
(* Session properties, checked under Spec *)

\* C1: a suggest-fix response that arrives after the text was edited (the
\* text captured by the request differs from the current text) leaves the
\* Suggestion empty.
C1_StaleSuggestionDiscarded ==
  (last.op = "suggested" /\ last.query # query) => suggestedFix = <<>>

\* C2: a validate response is applied only if the text captured by the
\* request still equals the current text; otherwise issues and diagnostics
\* stay empty, as the edit left them.
C2_StaleValidateDiscarded ==
  (Validated /\ last.query # query) => (issues = <<>> /\ diagnostics = <<>>)

C4_SuggestNeedsDiagnostics == last.op = "suggest" => Len(diagnostics) > 0

\* C4 (amended): suggest-fix is accepted only when the stored issue list is
\* non-empty; with an empty issue list it is rejected.
C4_SuggestNeedsIssues == last.op = "suggest" => Len(issues) > 0

C4_SuggestWithoutDiagnostics ==
  /\ last.op = "suggest"
  /\ diagnostics = <<>>
  /\ Len(issues) > 0
  /\ Len(pendingSuggest) > 0

\* C5: an issue whose line number is 0 or exceeds the line count of the
\* validated text produces no Diagnostic: the stored Diagnostics are exactly
\* as many as the well-formed issues with a line number in range.
C5_OutOfRangeDropped ==
  Validated =>
    Len(diagnostics) =
      Cardinality({i \in 1..Len(last.result) :
                     /\ WellFormed(last.result[i])
                     /\ InRange(last.query, LineNumberOf(last.result[i]))})

\* C6: every stored Diagnostic has 0 <= from <= to <= length of the current
\* text.
C6_OffsetsWithinText ==
  \A k \in 1..Len(diagnostics) :
    /\ 0 <= diagnostics[k].from
    /\ diagnostics[k].from <= diagnostics[k].to
    /\ diagnostics[k].to <= Len(query)

----------------------------------------------------------------------------
(* Pipeline properties, checked under PipeSpec *)

\* C7: round trip: for an issue on a line n of the validated text, the slice
\* text[from:to] of its Diagnostic is the content of line n without its line
\* break.
C7_RoundTrip ==
  Validated =>
    /\ Paired
    /\ \A k \in 1..Len(diagnostics) :
         LET n == LineNumberOf(IssueOf(k))
         IN InRange(last.query, n) =>
              SubSeq(last.query, diagnostics[k].from + 1, diagnostics[k].to)
                = LineText(last.query, n)

C7_NonEmptyLaterLine ==
  /\ Validated
  /\ \E k \in 1..Len(diagnostics) :
       /\ diagnostics[k].from > 0
       /\ diagnostics[k].to > diagnostics[k].from
       /\ diagnostics[k].to <= Len(last.query)

\* C8: the start offset of an in-range line n is the sum over i < n of
\* (length of line i + 1); the offset of line 1 is 0, also for empty text.
C8_StartOffsetIsPrefixSum ==
  Validated =>
    /\ Paired
    /\ \A k \in 1..Len(diagnostics) :
         LET n == LineNumberOf(IssueOf(k))
         IN /\ InRange(last.query, n) =>
                 diagnostics[k].from = SumBefore(last.query, n)
            /\ n = 1 => diagnostics[k].from = 0

C8_ThirdLineOffset ==
  /\ Validated
  /\ last.query = <<NL, NL>>
  /\ last.result = <<IssueLine1, IssueLine03>>
  /\ Len(diagnostics) = 2
  /\ diagnostics[1].from = 0
  /\ diagnostics[2].from = 2

\* C9: a raw issue yields a Diagnostic iff it begins with "Line ", one or
\* more decimal digits and ":", the digits being the line number; the issue
\* list stored from the response keeps every string, matching or not,
\* verbatim and in position.
C9_ParseShape ==
  Validated =>
    /\ issues = last.result
    /\ Paired
    /\ \A k \in 1..Len(diagnostics) :
         LET n == LineNumberOf(IssueOf(k))
         IN InRange(last.query, n) =>
              /\ diagnostics[k].from = SumBefore(last.query, n)
              /\ diagnostics[k].to = diagnostics[k].from + Len(LineText(last.query, n))

C9_MalformedBeforeWellFormed ==
  /\ Validated
  /\ Len(last.result) = 2
  /\ ~WellFormed(last.result[1])
  /\ last.result[2] = IssueLine03
  /\ issues = last.result
  /\ Len(diagnostics) = 1
  /\ diagnostics[1].from = 2

\* C10 (as claimed): the message is the remainder after "Line <N>:" with at
\* most one following whitespace character removed.
C10_OneSpaceStripped ==
  Validated =>
    /\ Paired
    /\ \A k \in 1..Len(diagnostics) :
         LET r == Remainder(IssueOf(k))
         IN diagnostics[k].message =
              IF r # <<>> /\ r[1] \in {" ", "\t", NL} THEN Tail(r) ELSE r

\* C10 (amended): the message is the remainder after "Line <N>:" with all
\* following whitespace characters removed: a suffix of the remainder that
\* does not start with whitespace and is preceded by whitespace only.
C10_AllSpaceStripped ==
  Validated =>
    /\ Paired
    /\ \A k \in 1..Len(diagnostics) :
         LET r == Remainder(IssueOf(k))
             m == diagnostics[k].message
             d == Len(r) - Len(m)
         IN /\ d >= 0
            /\ m = SubSeq(r, d + 1, Len(r))
            /\ \A i \in 1..d : r[i] \in {" ", "\t", NL}
            /\ m # <<>> => m[1] \notin {" ", "\t", NL}

C10_TwoSpacesStripped ==
  /\ Validated
  /\ \E k \in 1..Len(diagnostics) :
       /\ Paired
       /\ IssueOf(k) = IssueLine2
       /\ diagnostics[k].message = <<"y">>

----------------------------------------------------------------------------
(* Gutter and diagnostic-sequence properties, checked under PipeSpec *)

DiagnosticLines == {BreaksBefore(query, diagnostics[k].from + 1) + 1 : k \in 1..Len(diagnostics)}

\* C11: whatever the order of the Diagnostics (all of them lying within the
\* editor's text), the gutter yields exactly one mark per distinct line that
\* carries a Diagnostic, in ascending line-number order.
C11_GutterMarksSortedDistinct ==
  (\A k \in 1..Len(diagnostics) : diagnostics[k].from <= Len(query)) =>
    LET g == markers(query, diagnostics)
    IN /\ ~g.thrown
       /\ {g.marks[i].number : i \in 1..Len(g.marks)} = DiagnosticLines
       /\ Len(g.marks) = Cardinality(DiagnosticLines)
       /\ \A i \in 1..(Len(g.marks) - 1) : g.marks[i].number < g.marks[i + 1].number

\* the Diagnostic the pipeline is to build for a well-formed issue on an
\* existing line
DiagnosticFor(text, msg) ==
  LET n == LineNumberOf(msg)
      r == Remainder(msg)
      d == CHOOSE j \in 0..Len(r) :
             /\ \A i \in 1..j : r[i] \in {" ", "\t", NL}
             /\ j < Len(r) => r[j + 1] \notin {" ", "\t", NL}
  IN [from |-> SumBefore(text, n),
      to |-> SumBefore(text, n) + Len(LineText(text, n)),
      severity |-> "warning",
      message |-> SubSeq(r, d + 1, Len(r))]

RECURSIVE ExpectedDiagnostics(_, _)
ExpectedDiagnostics(text, result) ==
  IF result = <<>> THEN <<>>
  ELSE LET msg == result[Len(result)]
           before == ExpectedDiagnostics(text, SubSeq(result, 1, Len(result) - 1))
       IN IF WellFormed(msg) /\ InRange(text, LineNumberOf(msg))
          THEN Append(before, DiagnosticFor(text, msg))
          ELSE before

\* C12: after a successful validate the stored Diagnostics are exactly one
\* per well-formed, in-range issue of the response, in the order of the
\* response, unmerged, each with severity warning.
C12_OnePerInRangeIssueInOrder ==
  Validated => diagnostics = ExpectedDiagnostics(last.query, last.result)

----------------------------------------------------------------------------
(* Request properties, checked under Spec *)

\* C13: at most one validate request is outstanding, and the session is
\* Validating exactly while one is outstanding.
C13_OneValidateAtATime ==
  /\ Len(pendingValidate) <= 1
  /\ loading <=> (Len(pendingValidate) = 1)

\* C14: at most one suggest-fix request is outstanding.
C14_OneSuggestAtATime == Len(pendingSuggest) <= 1

\* C15: a failed validate request leaves Diagnostics empty and the issue list
\* holding exactly the one fixed "validation failed" string, which is none of
\* the fixed strings of the suggest-fix path.
C15_ValidateFailureFallback ==
  last.op = "validateFailed" =>
    /\ diagnostics = <<>>
    /\ issues = <<ValidateErrorIssue>>
    /\ ValidateErrorIssue \notin
         {SuggestFailedApp, ErrorFetchingApi, NoSuggestionApi, NoSuggestionApp}

C15_FailureOverwritesIssues ==
  /\ last.op = "validateFailed"
  /\ issues = <<ValidateErrorIssue>>
  /\ diagnostics = <<>>
  /\ Len(pendingSuggest) = 1
  /\ pendingSuggest[1].issues # <<ValidateErrorIssue>>

UsableString(x) == x.t = "string" /\ Len(x.v) > 0

\* C16 (as claimed): the boundary returns a plain-string response itself,
\* otherwise the message field of the structured value when that is a
\* non-empty string, otherwise the fixed fallback; on non-success status or
\* network error the fixed error message.
C16_ReturnsMessageField ==
  last.op = "suggested" =>
    LET o == last.outcome
    IN last.returned =
         CASE o.kind # "json" -> Str(ErrorFetchingApi)
           [] o.kind = "json" /\ o.body = "string" -> Str(o.str)
           [] o.kind = "json" /\ o.body # "string" /\ UsableString(o.message) -> o.message
           [] OTHER -> Str(NoSuggestionApi)

\* C16 (amended): the boundary returns a plain-string response itself;
\* otherwise the response field of the structured value when it is truthy,
\* otherwise its message field when truthy, otherwise the fixed fallback; on
\* non-success status, network error or a null body the fixed error message.
C16_ReturnsResponseThenMessage ==
  last.op = "suggested" =>
    LET o == last.outcome
        failed == o.kind \in {"neterr", "notok"} \/ o.body = "null"
        truthy(x) == x.t \notin {"undefined", "string"} \/ UsableString(x)
    IN /\ failed => last.returned = Str(ErrorFetchingApi)
       /\ (~failed /\ o.body = "string") => last.returned = Str(o.str)
       /\ (~failed /\ o.body = "object") =>
            /\ truthy(o.response) => last.returned = o.response
            /\ (~truthy(o.response) /\ truthy(o.message)) => last.returned = o.message
            /\ (~truthy(o.response) /\ ~truthy(o.message)) =>
                 last.returned = Str(NoSuggestionApi)

C16_BothFieldsPresent ==
  /\ last.op = "suggested"
  /\ last.outcome.body = "object"
  /\ UsableString(last.outcome.response)
  /\ UsableString(last.outcome.message)
  /\ last.outcome.response # last.outcome.message
  /\ last.returned = last.outcome.response

\* C20: an applied suggest-fix completion stores a non-empty Suggestion (the
\* fixed fallback for an empty or whitespace-only answer, the fixed error
\* text for a failure), and the Suggestion becomes empty only by an edit.
C20_AppliedSuggestionNonEmpty ==
  [][/\ (last'.op = "suggested" /\ last' # last) =>
          LET o == last'.outcome
          IN /\ suggestedFix' # <<>>
             /\ (o.body = "string" /\ \A i \in 1..Len(o.str) : o.str[i] \in {" ", "\t", NL})
                  => suggestedFix' = NoSuggestionApp
             /\ o.kind \in {"neterr", "notok"} => suggestedFix' = ErrorFetchingApi
     /\ (suggestedFix' = <<>> /\ suggestedFix # <<>>) => query' # query]_vars

C20_WhitespaceAnswerReplaced ==
  /\ last.op = "suggested"
  /\ last.outcome.body = "string"
  /\ last.outcome.str = <<" ">>
  /\ suggestedFix = NoSuggestionApp

\* C17: provided validate requests settle, a Validating session (loading)
\* is eventually not Validating, whatever edits and clicks interleave.
C17_ValidatingEnds == loading ~> ~loading

C17_SettledAfterEdit ==
  /\ ~loading
  /\ last.op \in {"validated", "validateFailed"}
  /\ last.query # query
  /\ pendingValidate = <<>>

\* C18: the issue list a suggest-fix request carries is the validator's
\* response for the text it carries: when suggest-fix is issued right after
\* a validate response was stored, the text sent is the text validated.
C18_RequestPairsTextWithItsIssues ==
  [][(Validated /\ last'.op = "suggest") =>
       /\ pendingSuggest'[Len(pendingSuggest')].issues = last.result
       /\ pendingSuggest'[Len(pendingSuggest')].query = last.query]_vars

----------------------------------------------------------------------------
(* Issue list against Diagnostics, checked under PipeSpec *)

\* C19: the stored Diagnostics are never more than the stored issue strings,
\* so a non-empty Diagnostic set implies a non-empty issue list.
C19_DiagnosticsWithinIssues == Len(diagnostics) <= Len(issues)

C19_FewerDiagnosticsThanIssues ==
  /\ Len(diagnostics) = 1
  /\ Len(issues) = 2
  /\ last.op = "submit"

====
